---- MODULE Spec2Model ----
(***************************************************************************)
(* A model of the CCHUB API clients:                                       *)
(*   src/cchub_api_base_client.py  CchubApiBaseClient (dispatch, auth,     *)
(*                                 request sending, simulate, get_all)     *)
(*   src/cchub_api_client.py       CchubApiClient (auth, request sending)  *)
(*                                                                         *)
(* Python values are tagged records (PyInt, PyStr, PyNone), a dict is the  *)
(* sequence of its <<key, value>> items in insertion order, and a request  *)
(* on the wire is recorded with its method, URL, encoded query and the     *)
(* remaining keyword arguments handed to requests.Request.                 *)
(***************************************************************************)
EXTENDS Integers, Sequences, FiniteSets, TLC

VARIABLES
    access_token,   \* self.access_token, set by __init__
    srv_total,      \* environment: number of records the remote service holds
    srv_cap,        \* environment: the most records the service puts in one page
    srv_error,      \* environment: the error list the service puts in an envelope
    srv_changes,    \* environment: how often the collection changed during the call
    pc,             \* "idle" | "loop" (inside get_all's while) | "returned" | "raised"
    call,           \* the operation the caller invoked, with its arguments
    kwargs,         \* get_all: the running frame's kwargs ('params' present?, the dict)
    method,         \* get_all: the callable resolved from f'get_{model}'
    position,       \* get_all: the cursor
    all_data,       \* get_all: the aggregate being built
    stack,          \* get_all frames suspended in method(params=params)
    wire,           \* requests handed to session.send during the running call
    pages,          \* what each of those requests was answered with
    bodies,         \* get_all: the responses its page requests returned, in order
    all_data_ref,   \* get_all: identity of the dict object all_data is bound to
    heap,           \* the aggregate dict objects created so far, by identity
    held,           \* results of earlier get_all calls the caller still holds
    ret,            \* value returned to the caller
    raised          \* exception that reached the caller, "none" if none

vars == <<access_token, srv_total, srv_cap, srv_error, srv_changes, pc, call, kwargs,
          method, position, all_data, stack, wire, pages, bodies, all_data_ref, heap,
          held, ret, raised>>

\* the remote service
service == <<srv_total, srv_cap, srv_error, srv_changes>>

---------------------------------------------------------------------------
(* Bounds of the model *)

\* largest collection the service holds when get_all is exercised alone
MaxTotal == 250
\* largest collection the service holds when every operation is exercised
MaxRecords == 2

\* collection sizes a changing service moves between: multiples of DriftStep
DriftStep == 50
MaxDriftSteps == 5
\* how often the collection changes while one call runs
MaxChanges == 1
\* page size of a service that serves fewer records than asked for
ShortCap == 60

(* Program constants *)

\* params['take'] = 100
PageSize == 100
\* response.status_code != 200
HTTP_OK == 200

---------------------------------------------------------------------------
(* Python values *)

PyInt(n) == [t |-> "int", v |-> n]
PyStr(s) == [t |-> "str", v |-> s]
PyNone == [t |-> "none", v |-> 0]

\* bool(x): None, 0 and '' are falsy
Truthy(x) == CASE x.t = "none" -> FALSE
               [] x.t = "int" -> x.v # 0
               [] OTHER -> x.v # ""

\* str(x), as an f-string or the query encoder renders a value
Str(x) == CASE x.t = "none" -> "None"
            [] x.t = "int" -> ToString(x.v)
            [] OTHER -> x.v

\* str.upper() on the verbs callers pass
upper(s) == CASE s = "get" -> "GET"
              [] s = "post" -> "POST"
              [] s = "put" -> "PUT"
              [] s = "delete" -> "DELETE"
              [] s = "patch" -> "PATCH"
              [] OTHER -> s

(* dicts: sequences of <<key, value>> in insertion order, keys unique *)

Keys(d) == {d[i][1] : i \in DOMAIN d}
HasKey(d, k) == k \in Keys(d)
DictGet(d, k) == d[CHOOSE i \in DOMAIN d : d[i][1] = k][2]
DictSet(d, k, v) ==
    IF HasKey(d, k)
    THEN [i \in DOMAIN d |-> IF d[i][1] = k THEN <<k, v>> ELSE d[i]]
    ELSE Append(d, <<k, v>>)

---------------------------------------------------------------------------
(* The class and its synthesized methods *)

verbs == <<"get", "post", "put", "delete">>

models == <<"activities", "activitiesCall", "activitiesEmail", "activitiesWeb",
            "activitiesSms", "activitiesFbm", "activitiesIgdm", "activitiesWap",
            "activitiesVbr", "accounts", "contacts", "crmRecords", "crmDatabases",
            "campaignsRecords", "campaignsTypes", "databases", "groups", "pauses",
            "queues", "statuses", "templates", "tickets", "users">>

Range(s) == {s[i] : i \in DOMAIN s}

\* an attribute (setattr replaces one of the same name): its name, the function behind it ("" for plain data) and the
\* arguments a partialmethod has already bound ("" for none)
Attr(name, func, model, verb) ==
    [name |-> name, func |-> func, model |-> model, verb |-> verb]

\* the attributes written in the class body and by __init__
ClassBody ==
    {Attr(n, n, "", "") : n \in {"model_func", "_auth", "_make_request", "get", "post",
                                 "put", "delete", "simulate", "get_all", "__init__"}}
    \cup {Attr(n, "", "", "") : n \in {"models", "base_url", "access_token",
                                       "version_url", "session", "timeout"}}

set_model_method(cls) ==
    (cls \ {b \in cls : \E m \in Range(models), v \in Range(verbs) :
                            b.name = v \o "_" \o m})
    \cup {Attr(v \o "_" \o m, "model_func", m, v) : m \in Range(models), v \in Range(verbs)}

set_get_all_method(cls) ==
    (cls \ {b \in cls : \E m \in Range(models) : b.name = "get_all_" \o m})
    \cup {Attr("get_all_" \o m, "get_all", m, "") : m \in Range(models)}

\* @set_get_all_method @set_model_method class CchubApiBaseClient
CchubApiBaseClient == set_get_all_method(set_model_method(ClassBody))

hasattr(name) == \E a \in CchubApiBaseClient : a.name = name
getattr(name) == CHOOSE a \in CchubApiBaseClient : a.name = name
callable(a) == a.func # ""

\* __init__: self.base_url, self.version_url (api_version defaults to '6')
base_url == "https://cchub.example"
version_url == "/api/v" \o "6"

---------------------------------------------------------------------------
(* The remote service and the transport, as the client sees them *)

\* what session.send does with a prepared request: the service answers with a
\* status code, or the transport raises a RequestException
Statuses == {200, 201, 404, 500}
RequestException == -1
Outcomes == Statuses \cup {RequestException}

None == [kind |-> "None"]
Response(status, body) == [kind |-> "Response", status_code |-> status, json |-> body]
\* a parsed JSON body, as CchubApiClient returns it
Json(body) == [kind |-> "json", value |-> body]
\* the aggregate dict get_all returns
Dict(d) == [kind |-> "dict", value |-> d]
Unset == [kind |-> "unset"]

Min(a, b) == IF a < b THEN a ELSE b

\* the service's collection: record i sits at offset i - 1
Collection == [i \in 1..srv_total |-> i]

\* the service reads an integer back out of the query string
ParseInt(s) == CHOOSE n \in 0..(MaxTotal + 3 * PageSize) : ToString(n) = s

QueryHas(query, k) == \E i \in DOMAIN query : query[i][1] = k
QueryGet(query, k) == query[CHOOSE i \in DOMAIN query : query[i][1] = k][2]

\* the response envelope {"error": [], "result": {"data": [...], "total": n}}
Envelope(skip, take) ==
    [error |-> srv_error,
     result |-> [data |-> SubSeq(Collection, skip + 1,
                                 Min(skip + Min(take, srv_cap), srv_total)),
                 total |-> srv_total]]

ErrorEnvelope == [error |-> <<"failed">>, result |-> [data |-> <<>>, total |-> 0]]

\* the service's answer to a request, given the status it answers with
Serve(req, status) ==
    LET skip == IF QueryHas(req.query, "skip")
                THEN ParseInt(QueryGet(req.query, "skip")) ELSE 0
        take == IF QueryHas(req.query, "take")
                THEN ParseInt(QueryGet(req.query, "take")) ELSE PageSize
    IN IF status < 400
       THEN Response(status, Envelope(skip, take))
       ELSE Response(status, ErrorEnvelope)

---------------------------------------------------------------------------
(* CchubApiBaseClient: auth, sending, verbs, simulate, dispatch *)

\* a call's keyword arguments: the names present, and the values of the two the
\* client looks at ('params' is <<>> and 'simulate' FALSE when absent)
Kwargs(keys, params, simulate) == [keys |-> keys, params |-> params, simulate |-> simulate]

\* _auth leaving an accessToken the caller supplied in place (dict.setdefault)
_auth_KeepsCallerToken(params, token) ==
    IF params # <<>>
    THEN IF HasKey(params, "accessToken") THEN params
         ELSE DictSet(params, "accessToken", PyStr(token))
    ELSE << <<"accessToken", PyStr(token)>> >>

\* _auth: a truthy params dict is updated in place, otherwise a new dict is made
_auth(params, token) ==
    IF params # <<>>
    THEN DictSet(params, "accessToken", PyStr(token))
    ELSE << <<"accessToken", PyStr(token)>> >>

\* Php.http_build_query on a flat dict: one name=value item per entry, in order
http_build_query(params) == [i \in DOMAIN params |-> <<params[i][1], Str(params[i][2])>>]

\* the value of the try/except around session.send
send(req, outcome) ==
    IF outcome = RequestException THEN None ELSE Serve(req, outcome)

\* What an operation of the client did: the exception it raised ("none" if
\* none), the requests it sent, what they were answered with, its return value
\* and the dict the caller passed as params as the call left it.
Effect(exc, reqs, answers, value, params) ==
    [raised |-> exc, requests |-> reqs, answers |-> answers, ret |-> value,
     params |-> params]

_make_request(http_method, endpoint, kw, token, outcome) ==
    LET params == IF "params" \in kw.keys THEN kw.params ELSE <<>>
        rest == kw.keys \ {"params"}
        authed == _auth(params, token)
        req == [method |-> http_method,
                url |-> base_url \o endpoint,
                query |-> http_build_query(authed),
                kwargs |-> rest]
    IN Effect("none", <<req>>, <<outcome>>, send(req, outcome),
              IF params # <<>> THEN authed ELSE params)

get(endpoint, kw, token, outcome) == _make_request("GET", endpoint, kw, token, outcome)
post(endpoint, kw, token, outcome) == _make_request("POST", endpoint, kw, token, outcome)
put(endpoint, kw, token, outcome) == _make_request("PUT", endpoint, kw, token, outcome)
delete(endpoint, kw, token, outcome) == _make_request("DELETE", endpoint, kw, token, outcome)

\* simulate sending the request with the intended verb instead of GET
simulate_NativeVerb(endpoint, verb, kw, token, outcome) ==
    LET params == IF "params" \in kw.keys THEN kw.params ELSE <<>>
        marked == IF params # <<>>
                  THEN DictSet(params, "_method", PyStr(upper(verb)))
                  ELSE << <<"_method", PyStr(upper(verb))>> >>
        sent == _make_request(upper(verb), endpoint,
                              Kwargs(kw.keys \cup {"params"}, marked, FALSE),
                              token, outcome)
    IN IF params # <<>> THEN sent ELSE [sent EXCEPT !.params = params]

simulate(endpoint, verb, kw, token, outcome) ==
    LET params == IF "params" \in kw.keys THEN kw.params ELSE <<>>
        marked == IF params # <<>>
                  THEN DictSet(params, "_method", PyStr(upper(verb)))
                  ELSE << <<"_method", PyStr(upper(verb))>> >>
        sent == _make_request("GET", endpoint,
                              Kwargs(kw.keys \cup {"params"}, marked, FALSE),
                              token, outcome)
    IN IF params # <<>> THEN sent ELSE [sent EXCEPT !.params = params]

\* the uid model_func takes from its positional arguments
Uid(args) == IF args # <<>> THEN args[1] ELSE PyNone

Endpoint(model, uid) ==
    IF Truthy(uid)
    THEN version_url \o "/" \o model \o "/" \o Str(uid) \o ".json"
    ELSE version_url \o "/" \o model \o ".json"

model_func(model, verb, args, kw, token, outcome) ==
    LET uid == Uid(args)
        sim == IF "simulate" \in kw.keys THEN kw.simulate ELSE FALSE
        rest == Kwargs(kw.keys \ {"simulate"}, kw.params, FALSE)
        endpoint == Endpoint(model, uid)
    IN IF sim
       THEN simulate(endpoint, verb, rest, token, outcome)
       ELSE CASE verb = "get" -> get(endpoint, rest, token, outcome)
              [] verb = "post" -> post(endpoint, rest, token, outcome)
              [] verb = "put" -> put(endpoint, rest, token, outcome)
              [] verb = "delete" -> delete(endpoint, rest, token, outcome)
              [] OTHER -> Effect("KeyError", <<>>, <<>>, Unset, kw.params)

---------------------------------------------------------------------------
(* CchubApiClient (src/cchub_api_client.py) *)

Client_auth(params, token) ==
    IF params # <<>>
    THEN DictSet(params, "accessToken", PyStr(token))
    ELSE << <<"accessToken", PyStr(token)>> >>

\* response.raise_for_status(): HTTPError, a RequestException, on 4xx and 5xx
raise_for_status(response) == response.status_code >= 400 /\ response.status_code < 600

Client_make_request(http_method, endpoint, params, token, outcome) ==
    LET authed == Client_auth(params, token)
        req == [method |-> http_method,
                url |-> base_url \o endpoint,
                query |-> http_build_query(authed),
                kwargs |-> {"data"}]
        response == Serve(req, outcome)
        value == IF outcome = RequestException THEN None
                 ELSE IF raise_for_status(response) THEN None
                 ELSE Json(response.json)
    IN Effect("none", <<req>>, <<outcome>>, value,
              IF params # <<>> THEN authed ELSE params)

---------------------------------------------------------------------------
(* get_all *)

EmptyAggregate ==
    [result |-> [data |-> <<>>, total |-> 0], error |-> <<>>, status_code |-> <<>>]

NoMethod == Attr("", "", "", "")

\* do = f'get_{model}'; hasattr(self, do) and callable(getattr(self, do))
Resolves(model) == hasattr("get_" \o model) /\ callable(getattr("get_" \o model))

\* PageParams with the cursor never written into skip
PageParams_SkipStaysZero ==
    LET params == IF "params" \in kwargs.keys THEN kwargs.params ELSE <<>>
    IN DictSet(DictSet(params, "skip", PyInt(0)), "take", PyInt(PageSize))

\* PageParams starting from an empty dict on every page after the first
PageParams_FreshAfterFirstPage ==
    LET params == IF "params" \in kwargs.keys /\ position = 0 THEN kwargs.params ELSE <<>>
    IN DictSet(DictSet(params, "skip", PyInt(position)), "take", PyInt(PageSize))

\* params = kwargs['params'] (or {}), then skip and take are written into it
PageParams ==
    LET params == IF "params" \in kwargs.keys THEN kwargs.params ELSE <<>>
    IN DictSet(DictSet(params, "skip", PyInt(position)), "take", PyInt(PageSize))

\* the kwargs of the frame the caller invoked, given the dict the running frame
\* holds: a suspended frame passed its own params object down
CallerKwargs(d) ==
    LET own == IF stack = <<>> THEN kwargs ELSE stack[1].kwargs
    IN IF "params" \in own.keys THEN [own EXCEPT !.params = d] ELSE own

\* an exception leaves every frame
Raise(exc, d) ==
    /\ pc' = "raised"
    /\ raised' = exc
    /\ stack' = <<>>
    /\ kwargs' = CallerKwargs(d)
    /\ UNCHANGED <<all_data, position, ret, method>>

\* return all_data: to the caller, or into the suspended frame, whose
\* response.status_code then fails on a dict
Return(value, d) ==
    IF stack = <<>>
    THEN /\ pc' = "returned"
         /\ ret' = Dict(value)
         /\ all_data' = value
         /\ kwargs' = CallerKwargs(d)
         /\ UNCHANGED <<position, raised, stack, method>>
    ELSE Raise("AttributeError", d)

\* StatusFails taking every status below 400 for a success
StatusFails_Only4xx5xx(response) == response.status_code >= 400

\* if response.status_code != 200: break
StatusFails(response) == response.status_code # HTTP_OK

\* Accumulate taking total from every page
Accumulate_TotalEveryPage(agg, response, pos) ==
    LET res == response.json
    IN [agg EXCEPT !.status_code = Append(@, response.status_code),
                   !.error = Append(@, res.error),
                   !.result.data = @ \o res.result.data,
                   !.result.total = res.result.total]

\* Accumulate extending the error list with the page's entries (extend for append)
Accumulate_ErrorsFlattened(agg, response, pos) ==
    LET res == response.json
    IN [agg EXCEPT !.status_code = Append(@, response.status_code),
                   !.error = @ \o res.error,
                   !.result.data = @ \o res.result.data,
                   !.result.total = IF pos = 0 THEN res.result.total ELSE @]

\* the page is added to the aggregate; total is taken on the first page only
Accumulate(agg, response, pos) ==
    LET res == response.json
    IN [agg EXCEPT !.status_code = Append(@, response.status_code),
                   !.error = Append(@, res.error),
                   !.result.data = @ \o res.result.data,
                   !.result.total = IF pos = 0 THEN res.result.total ELSE @]

\* MorePages with >= for >
MorePages_AtLeast(total, pos) == total >= pos

\* if total > position: position += pagesize, else break
MorePages(total, pos) == total > pos

\* the client is constructed and no operation is running or has finished
Idle == pc = "idle"

\* NewRef handing out the object made last (one aggregate kept across calls)
NewRef_Shared == IF heap = <<>> THEN Len(heap) + 1 ELSE Len(heap)

\* all_data = {...}: the dict display makes a new object on every evaluation
NewRef == Len(heap) + 1

\* the object with identity ref takes the value v
Store(objects, ref, v) ==
    IF ref \in DOMAIN objects THEN [objects EXCEPT ![ref] = v] ELSE Append(objects, v)

\* get_all up to the loop: the aggregate, the cursor, the method to use
get_all_enter(model, kw) ==
    /\ call' = [op |-> "get_all", model |-> model, verb |-> "", args |-> <<>>,
                kwargs |-> kw]
    /\ kwargs' = kw
    /\ all_data' = EmptyAggregate
    /\ all_data_ref' = NewRef
    /\ heap' = Store(heap, NewRef, EmptyAggregate)
    /\ position' = 0
    /\ wire' = <<>>
    /\ pages' = <<>>
    /\ bodies' = <<>>
    /\ stack' = <<>>
    /\ ret' = Unset
    /\ IF Resolves(model)
       THEN /\ method' = getattr("get_" \o model)
            /\ pc' = "loop"
            /\ raised' = "none"
       ELSE /\ method' = NoMethod
            /\ pc' = "raised"
            /\ raised' = "Exception"
    /\ UNCHANGED <<access_token, service>>

\* get_all called on a client that has done nothing yet
get_all_call(model, kw) ==
    /\ Idle
    /\ get_all_enter(model, kw)
    /\ UNCHANGED held

\* get_all called again on the same client after a get_all call has ended; the
\* caller keeps what that call returned (held: the object and its value then)
get_all_again(model, kw) ==
    /\ pc \in {"returned", "raised"}
    /\ call.op = "get_all"
    /\ held = <<>>
    /\ held' = <<[ref |-> all_data_ref, value |-> heap[all_data_ref],
                  returned |-> (pc = "returned"), requests |-> Len(wire)]>>
    /\ get_all_enter(model, kw)

\* LoopTotal reading the total recorded in the aggregate (the first page's)
LoopTotal_FirstPage(agg, response) == agg.result.total

\* the total the stop test reads: that of the page just processed
LoopTotal(agg, response) == response.json.result.total

\* NextPosition advancing by the records the page held
NextPosition_ByRecords(pos, pagesize, response) == pos + Len(response.json.result.data)

\* position += pagesize
NextPosition(pos, pagesize, response) == pos + pagesize

\* one pass of the while loop, the resolved method being a get_<model>
get_all_page(outcome) ==
    /\ pc = "loop"
    /\ method.func = "model_func"
    /\ \E eff \in {model_func(method.model, method.verb, <<>>,
                             Kwargs({"params"}, PageParams, FALSE), access_token, outcome)} :
       LET response == eff.ret
       IN /\ wire' = wire \o eff.requests
          /\ pages' = pages \o eff.answers
          /\ bodies' = Append(bodies, response)
          /\ IF response.kind = "None"
             THEN Raise("AttributeError", eff.params)
             ELSE IF StatusFails(response)
             THEN Return(all_data, eff.params)
             ELSE LET acc == Accumulate(all_data, response, position)
                      total == LoopTotal(acc, response)
                      pagesize == DictGet(eff.params, "take").v
                  IN IF MorePages(total, position)
                     THEN /\ position' = NextPosition(position, pagesize, response)
                          /\ all_data' = acc
                          /\ kwargs' = IF "params" \in kwargs.keys
                                       THEN [kwargs EXCEPT !.params = eff.params]
                                       ELSE kwargs
                          /\ UNCHANGED <<pc, ret, raised, stack, method>>
                     ELSE Return(acc, eff.params)
    /\ heap' = Store(heap, all_data_ref, all_data')
    /\ UNCHANGED <<access_token, service, call, all_data_ref, held>>

\* one pass of the while loop, the resolved method being a get_all_<model>:
\* method(params=params) enters get_all again
get_all_nested ==
    /\ pc = "loop"
    /\ method.func = "get_all"
    /\ method.model # ""
    /\ stack' = Append(stack, [kwargs |-> kwargs, method |-> method,
                               position |-> position, all_data |-> all_data])
    /\ kwargs' = Kwargs({"params"}, PageParams, FALSE)
    /\ all_data' = EmptyAggregate
    /\ all_data_ref' = NewRef
    /\ heap' = Store(heap, NewRef, EmptyAggregate)
    /\ position' = 0
    /\ IF Resolves(method.model)
       THEN /\ method' = getattr("get_" \o method.model)
            /\ UNCHANGED <<pc, raised>>
       ELSE /\ method' = NoMethod
            /\ pc' = "raised"
            /\ raised' = "Exception"
    /\ UNCHANGED <<access_token, service, call, wire, pages, bodies, held, ret>>

\* one pass of the while loop, the resolved method being get_all itself:
\* method(params=params) lacks the positional argument model
get_all_unbound ==
    /\ pc = "loop"
    /\ method.func = "get_all"
    /\ method.model = ""
    /\ Raise("TypeError", PageParams)
    /\ UNCHANGED <<access_token, service, call, wire, pages, bodies, all_data_ref, heap,
                   held>>

---------------------------------------------------------------------------
(* Calls of the other operations *)

model_func_call(model, verb, args, kw, outcome) ==
    /\ Idle
    /\ LET eff == model_func(model, verb, args, kw, access_token, outcome)
       IN /\ wire' = eff.requests
          /\ pages' = eff.answers
          /\ ret' = eff.ret
          /\ raised' = eff.raised
          /\ pc' = IF eff.raised = "none" THEN "returned" ELSE "raised"
          /\ kwargs' = [kw EXCEPT !.params = eff.params]
    /\ call' = [op |-> "model_func", model |-> model, verb |-> verb, args |-> args,
                kwargs |-> kw]
    /\ method' = NoMethod
    /\ position' = 0
    /\ all_data' = EmptyAggregate
    /\ stack' = <<>>
    /\ bodies' = <<>>
    /\ UNCHANGED <<access_token, service, all_data_ref, heap, held>>

Client_make_request_call(http_method, endpoint, params, outcome) ==
    /\ Idle
    /\ LET eff == Client_make_request(http_method, endpoint, params, access_token, outcome)
       IN /\ wire' = eff.requests
          /\ pages' = eff.answers
          /\ ret' = eff.ret
          /\ raised' = eff.raised
          /\ pc' = "returned"
          /\ kwargs' = Kwargs({"params"}, eff.params, FALSE)
    /\ call' = [op |-> "Client_make_request", model |-> "", verb |-> http_method,
                args |-> <<PyStr(endpoint)>>, kwargs |-> Kwargs({"params"}, params, FALSE)]
    /\ method' = NoMethod
    /\ position' = 0
    /\ all_data' = EmptyAggregate
    /\ stack' = <<>>
    /\ bodies' = <<>>
    /\ UNCHANGED <<access_token, service, all_data_ref, heap, held>>

---------------------------------------------------------------------------
(* Inputs and specifications *)

Tokens == {"s3cr3t"}

\* dicts a caller passes as params
ParamDicts ==
    { <<>>,
      << <<"filter", PyStr("name")>> >>,
      << <<"accessToken", PyStr("forged")>>, <<"skip", PyInt(7)>>, <<"take", PyInt(5)>> >> }

CallKwargs(names) ==
    {Kwargs(K, p, s) : K \in SUBSET names, p \in ParamDicts, s \in BOOLEAN}
    \cap {kw \in [keys : SUBSET names, params : ParamDicts, simulate : BOOLEAN] :
              /\ "params" \notin kw.keys => kw.params = <<>>
              /\ "simulate" \notin kw.keys => kw.simulate = FALSE}

\* models get_all is called with: in the catalog, and not
GetAllModels == {"accounts", "users", "nosuch", "all", "all_accounts"}
DispatchModels == {"accounts", "users"}
DispatchVerbs == {"get", "post", "put", "delete", "patch"}
DispatchArgs == {<<>>, <<PyInt(0)>>, <<PyInt(7)>>, <<PyStr("")>>, <<PyStr("name_1")>>}
HttpMethods == {"GET", "POST", "PUT", "DELETE"}
Endpoints == {"/api/v6/accounts.json"}

InitClient ==
    /\ access_token \in Tokens
    /\ pc = "idle"
    /\ call = [op |-> "none", model |-> "", verb |-> "", args |-> <<>>,
               kwargs |-> Kwargs({}, <<>>, FALSE)]
    /\ kwargs = Kwargs({}, <<>>, FALSE)
    /\ method = NoMethod
    /\ position = 0
    /\ all_data = EmptyAggregate
    /\ stack = <<>>
    /\ wire = <<>>
    /\ pages = <<>>
    /\ bodies = <<>>
    /\ all_data_ref = 0
    /\ heap = <<>>
    /\ held = <<>>
    /\ ret = Unset
    /\ raised = "none"

\* a service whose collection stays as it is, that serves full pages and
\* reports no errors
SteadyService ==
    /\ srv_cap = PageSize
    /\ srv_error = <<>>
    /\ srv_changes = 0

Init == InitClient /\ SteadyService /\ srv_total \in 0..MaxRecords

InitPaging == InitClient /\ SteadyService /\ srv_total \in 0..MaxTotal

CallGetAll == \E m \in GetAllModels, kw \in CallKwargs({"params"}) : get_all_call(m, kw)
StepPage == \E outcome \in Outcomes : get_all_page(outcome)
CallModelFunc ==
    \E m \in DispatchModels, v \in DispatchVerbs, a \in DispatchArgs,
       kw \in CallKwargs({"params", "json", "simulate"}), outcome \in Outcomes :
        model_func_call(m, v, a, kw, outcome)
CallClient ==
    \E hm \in HttpMethods, e \in Endpoints, p \in ParamDicts, outcome \in Outcomes :
        Client_make_request_call(hm, e, p, outcome)

NextPaging ==
    \/ CallGetAll
    \/ StepPage
    \/ get_all_nested
    \/ get_all_unbound

Next ==
    \/ CallGetAll
    \/ StepPage
    \/ get_all_nested
    \/ get_all_unbound
    \/ CallModelFunc
    \/ CallClient

\* the collection grows or shrinks between two page requests of a running call
service_changes(n) ==
    /\ pc = "loop"
    /\ srv_changes < MaxChanges
    /\ n # srv_total
    /\ srv_total' = n
    /\ srv_changes' = srv_changes + 1
    /\ UNCHANGED <<access_token, srv_cap, srv_error, pc, call, kwargs, method, position,
                   all_data, stack, wire, pages, bodies, all_data_ref, heap, held, ret,
                   raised>>

DriftTotals == {k * DriftStep : k \in 0..MaxDriftSteps}
ErrorLists == {<<>>, <<"warn1", "warn2">>}

\* a service whose collection may change, that may serve short pages and may
\* attach entries to the error list of an envelope
InitDrift ==
    /\ InitClient
    /\ srv_total \in DriftTotals
    /\ srv_cap \in {PageSize, ShortCap}
    /\ srv_error \in ErrorLists
    /\ srv_changes = 0

ServiceChanges == \E n \in DriftTotals : service_changes(n)

NextDrift ==
    \/ CallGetAll
    \/ StepPage
    \/ get_all_nested
    \/ get_all_unbound
    \/ ServiceChanges

\* a second get_all call: with new keyword arguments, or with the mapping the
\* first call was given, as that call left it
CallGetAllAgain ==
    \E m \in GetAllModels, kw \in CallKwargs({"params"}) \cup {kwargs} : get_all_again(m, kw)

NextTwice ==
    \/ CallGetAll
    \/ StepPage
    \/ get_all_nested
    \/ get_all_unbound
    \/ CallGetAllAgain

Spec == Init /\ [][Next]_vars

SpecTwice == Init /\ [][NextTwice]_vars

SpecDrift == InitDrift /\ [][NextDrift]_vars

\* get_all is sequential code: once in the loop it takes its next step
LoopStep == StepPage \/ get_all_nested \/ get_all_unbound

\* a service that starts with full pages and no error entries, and may change
InitDriftFair ==
    /\ InitClient
    /\ srv_total \in DriftTotals
    /\ srv_cap = PageSize
    /\ srv_error = <<>>
    /\ srv_changes = 0

\* Weak fairness of LoopStep, WF_vars(LoopStep), written out: LoopStep is
\* enabled exactly in the states with pc = "loop" (C17_LoopStepEnabled)
LoopStepFair == []<>(pc # "loop") \/ []<><<LoopStep>>_vars

SpecDriftFair == InitDriftFair /\ [][NextDrift]_vars /\ LoopStepFair

SpecPaging == InitPaging /\ [][NextPaging]_vars

---------------------------------------------------------------------------
(* Properties of get_all, checked under SpecPaging *)

\* get_all was called with a model of the catalog
CatalogCall == call.op = "get_all" /\ call.model \in Range(models)

AllPagesOk == \A i \in DOMAIN pages : pages[i] = HTTP_OK

\* C1: when every page request is answered 200 by a service that reports
\* total = T on every page and serves the records at offsets
\* [skip, min(skip + 100, T)), get_all returns result.data equal to the whole
\* collection of T records, each once and in the original order, and
\* result.total = T, for every T in 0..MaxTotal.
C1_GetAllReturnsWholeCollection ==
    (pc = "returned" /\ call.op = "get_all" /\ AllPagesOk) =>
        /\ ret.kind = "dict"
        /\ ret.value.result.data = [i \in 1..srv_total |-> i]
        /\ ret.value.result.total = srv_total

C1_Witness ==
    /\ pc = "returned" /\ CatalogCall /\ AllPagesOk
    /\ srv_total = 250
    /\ Len(ret.value.result.data) = 250
    /\ ret.value.result.data[250] = 250
    /\ Len(wire) > 2

\* C2: when the first page request of get_all is answered 200 and the second
\* with another status, get_all returns without raising; the aggregate holds
\* exactly the first page's records, the total the first page reported and one
\* status code entry.
C2_SecondPageFailsKeepsFirstPage ==
    (CatalogCall /\ Len(pages) >= 2 /\ pages[1] = HTTP_OK
       /\ pages[2] \in Statuses \ {HTTP_OK}) =>
        /\ pc = "returned"
        /\ raised = "none"
        /\ Len(pages) = 2
        /\ ret.value.result.data = [i \in 1..Min(PageSize, srv_total) |-> i]
        /\ ret.value.result.total = srv_total
        /\ ret.value.status_code = <<HTTP_OK>>

C2_Witness ==
    /\ CatalogCall /\ pc = "returned" /\ Len(pages) = 2
    /\ pages[1] = HTTP_OK /\ pages[2] = 500
    /\ srv_total > PageSize
    /\ Len(ret.value.result.data) = PageSize

\* C3 (as stated): when a page request of get_all yields the no-response value
\* of _make_request, get_all stops and returns the aggregate built so far, and
\* no error reaches the caller, at whichever page that happens.
C3_NoResponseReturnsPartial ==
    (CatalogCall /\ pages # <<>> /\ pages[Len(pages)] = RequestException) =>
        /\ pc = "returned"
        /\ raised = "none"
        /\ ret = Dict(all_data)

\* C4: when the first page is answered 200 with total = 0 and no records,
\* get_all returns an aggregate with empty data and total 0 after exactly one
\* page request.
C4_EmptyCollectionOneRequest ==
    (CatalogCall /\ srv_total = 0 /\ pages # <<>> /\ pages[1] = HTTP_OK) =>
        /\ pc = "returned"
        /\ raised = "none"
        /\ ret.value.result.data = <<>>
        /\ ret.value.result.total = 0
        /\ Len(wire) = 1
        /\ Len(pages) = 1

C4_Witness ==
    /\ CatalogCall /\ srv_total = 0 /\ pc = "returned"
    /\ pages = <<HTTP_OK>>
    /\ Len(wire) = 1
    /\ ret.value.result.total = 0

---------------------------------------------------------------------------
(* Properties of sending, auth and dispatch, checked under Spec *)

\* the one request a single-request operation sent was answered, or failed
Sent == pc # "idle" /\ Len(wire) = 1 /\ Len(pages) = 1

\* C5 (as stated): in every exchange performed by _make_request, of
\* CchubApiBaseClient and of CchubApiClient alike, a transport exception gives
\* the no-response value without raising, and an answer with any status code,
\* 4xx and 5xx included, is returned as a response with that status code, never
\* as the no-response value.
C5_StatusAnswersAreReturned ==
    (call.op \in {"model_func", "Client_make_request"} /\ Sent) =>
        /\ raised = "none"
        /\ pages[1] = RequestException => ret = None
        /\ pages[1] \in Statuses =>
              ret.kind = "Response" /\ ret.status_code = pages[1]

\* the items of a query that carry the given name
QueryItems(query, name) == {i \in DOMAIN query : query[i][1] = name}

\* C6: every request that reaches the wire (native verb, simulate, a page
\* request of get_all) carries exactly one accessToken item in its query, equal
\* to the client's configured token, also when the caller's params hold an
\* accessToken entry of their own.
C6_AccessTokenIsTheClients ==
    \A r \in DOMAIN wire :
        /\ Cardinality(QueryItems(wire[r].query, "accessToken")) = 1
        /\ QueryGet(wire[r].query, "accessToken") = access_token

C6_Witness ==
    /\ call.op \in {"model_func", "get_all"}
    /\ HasKey(call.kwargs.params, "accessToken")
    /\ DictGet(call.kwargs.params, "accessToken") = PyStr("forged")
    /\ wire # <<>>
    /\ QueryGet(wire[Len(wire)].query, "accessToken") = "s3cr3t"

\* the path the caller means: /{model}/{id}.json with an id, /{model}.json without
IntendedPath(model, args) ==
    IF args # <<>>
    THEN "/api/v6/" \o model \o "/" \o Str(args[1]) \o ".json"
    ELSE "/api/v6/" \o model \o ".json"

\* C7 (as stated): model_func(M, 'get', I) targets /{M}/{I}.json under the
\* version prefix for every supplied id I, falsy ids such as 0 and '' included,
\* and model_func(M, 'get') targets /{M}.json.
C7_GetTargetsRecordForEveryId ==
    (call.op = "model_func" /\ call.verb = "get" /\ Sent) =>
        wire[1].url = "https://cchub.example" \o IntendedPath(call.model, call.args)

\* C8 (as stated): model_func called with a verb outside get, post, put and
\* delete fails with an invalid-argument error and sends no request, whatever
\* the other options are, the simulate flag included.
C8_UnknownVerbFails ==
    (call.op = "model_func" /\ call.verb \notin {"get", "post", "put", "delete"}
       /\ pc # "idle") =>
        /\ pc = "raised"
        /\ raised = "KeyError"
        /\ wire = <<>>

\* the caller asked model_func to simulate one of the four verbs
SimulatedCall ==
    /\ call.op = "model_func" /\ pc # "idle"
    /\ call.verb \in {"get", "post", "put", "delete"}
    /\ "simulate" \in call.kwargs.keys /\ call.kwargs.simulate

VerbInUpperCase(v) ==
    CASE v = "get" -> "GET" [] v = "post" -> "POST" [] v = "put" -> "PUT"
      [] v = "delete" -> "DELETE"

\* C9: model_func with the simulate flag set and a verb V of get, post, put,
\* delete sends exactly one request; its method is GET, its query holds one
\* _method item equal to V in upper case and every entry of the caller's params
\* (accessToken aside, which auth sets); simulate is neither a query item nor a
\* keyword argument of the request.
C9_SimulateSendsGetWithMethodOverride ==
    SimulatedCall =>
        /\ Len(wire) = 1
        /\ raised = "none"
        /\ wire[1].method = "GET"
        /\ Cardinality(QueryItems(wire[1].query, "_method")) = 1
        /\ QueryGet(wire[1].query, "_method") = VerbInUpperCase(call.verb)
        /\ \A i \in DOMAIN call.kwargs.params :
              LET k == call.kwargs.params[i][1]
              IN k # "accessToken" =>
                    /\ QueryHas(wire[1].query, k)
                    /\ QueryGet(wire[1].query, k) = Str(call.kwargs.params[i][2])
        /\ ~QueryHas(wire[1].query, "simulate")
        /\ "simulate" \notin wire[1].kwargs
        /\ wire[1].kwargs = call.kwargs.keys \ {"simulate", "params"}

C9_Witness ==
    /\ SimulatedCall
    /\ call.verb = "put"
    /\ call.kwargs.params = << <<"filter", PyStr("name")>> >>
    /\ "json" \in call.kwargs.keys
    /\ wire[1].method = "GET"
    /\ wire[1].query = << <<"filter", "name">>, <<"_method", "PUT">>,
                          <<"accessToken", "s3cr3t">> >>

\* C10 (as stated): get_all called with a model that is not in the catalog
\* fails with an error before any page request is sent, and for every model of
\* the catalog get_<model> and get_all_<model> both exist.
C10_UnknownModelSendsNothing ==
    /\ (call.op = "get_all" /\ call.model \notin Range(models)) =>
          (wire = <<>> /\ pc # "returned")
    /\ \A m \in Range(models) :
          /\ hasattr("get_" \o m) /\ callable(getattr("get_" \o m))
          /\ hasattr("get_all_" \o m) /\ callable(getattr("get_all_" \o m))

---------------------------------------------------------------------------
(* Properties of get_all's loop, checked under SpecPaging and SpecDrift *)

\* the skip offset a request carries
SkipOf(req) == ParseInt(QueryGet(req.query, "skip"))

\* page request i was answered 200, so its records went into the aggregate
Accepted(i) == bodies[i].kind = "Response" /\ bodies[i].status_code = HTTP_OK
AllAccepted == \A i \in DOMAIN bodies : Accepted(i)

\* the total page i reported
ReportedTotal(i) == bodies[i].json.result.total

\* C11 (as stated): with every page answered 200 and total = 250 get_all sends
\* exactly three page requests (skip = 0, 100, 200) and does not request
\* skip = 300; in general no page request other than the first carries a skip
\* offset greater than or equal to the reported total.
C11_NoRequestAtOrBeyondTotal ==
    CatalogCall =>
        /\ (pc = "returned" /\ AllPagesOk /\ srv_total = 250) =>
              /\ Len(wire) = 3
              /\ \A i \in DOMAIN wire : SkipOf(wire[i]) # 300
        /\ \A i \in DOMAIN wire : i > 1 => SkipOf(wire[i]) < srv_total

\* C12: in every get_all call the k-th page request (k = 0, 1, 2, ...) carries
\* take = 100 and skip = 100 * k, whatever skip or take the caller's params
\* held and however many records the pages before it returned.
C12_CursorAdvancesByPageSize ==
    call.op = "get_all" =>
        \A i \in DOMAIN wire :
            /\ QueryGet(wire[i].query, "take") = "100"
            /\ QueryGet(wire[i].query, "skip") = ToString(100 * (i - 1))

C12_Witness ==
    /\ CatalogCall
    /\ call.kwargs.params = << <<"accessToken", PyStr("forged")>>, <<"skip", PyInt(7)>>,
                               <<"take", PyInt(5)>> >>
    /\ srv_cap = ShortCap
    /\ Len(wire) = 3
    /\ Accepted(1) /\ Len(bodies[1].json.result.data) = ShortCap
    /\ ReportedTotal(1) > PageSize
    /\ QueryGet(wire[3].query, "skip") = "200"

\* the total of the first page, if that page was answered 200, else 0
FirstPageTotal == IF bodies # <<>> /\ Accepted(1) THEN ReportedTotal(1) ELSE 0

\* C13: result.total of get_all's aggregate is recorded once, from the first
\* page answered 200 at position 0: it equals that page's reported total at
\* every later point of the call and in the value returned, also when later
\* pages report another total, and it stays 0 when the first page request fails.
C13_TotalIsFirstPages ==
    call.op = "get_all" =>
        /\ all_data.result.total = FirstPageTotal
        /\ pc = "returned" => ret.value.result.total = FirstPageTotal

C13_Witness ==
    /\ CatalogCall /\ pc = "returned"
    /\ Len(bodies) >= 2 /\ AllAccepted
    /\ ReportedTotal(2) # ReportedTotal(1)
    /\ ret.value.result.total = ReportedTotal(1)

\* the number of page requests a service that reports total t on every page gets
RequestsForSteadyTotal(t) == IF t = 0 THEN 1 ELSE ((t - 1) \div PageSize) + 2

\* C14 (as stated): the stop test compares the total recorded from the first
\* page with the position, so with every page answered 200 the number of page
\* requests is a function of the first page's reported total alone, whatever
\* later pages report.
C14_RequestsDependOnFirstTotalOnly ==
    (CatalogCall /\ pc = "returned" /\ AllPagesOk) =>
        Len(wire) = RequestsForSteadyTotal(FirstPageTotal)

\* C14 (amended): the stop test compares the total reported by the page just
\* processed with the position: with pages answered 200, a further request
\* follows the page at skip = p exactly when that page reported a total
\* greater than p; the number of requests is the steady one when no page
\* reports a total different from the first page's.
C14_StopTestReadsCurrentPage ==
    CatalogCall =>
        /\ \A i \in DOMAIN bodies :
              Accepted(i) =>
                  /\ i < Len(bodies) => ReportedTotal(i) > PageSize * (i - 1)
                  /\ (i = Len(bodies) /\ pc = "loop") =>
                        ReportedTotal(i) > PageSize * (i - 1)
                  /\ (i = Len(bodies) /\ pc = "returned") =>
                        ReportedTotal(i) <= PageSize * (i - 1)
        /\ (pc = "returned" /\ AllPagesOk
              /\ \A i \in DOMAIN bodies : ReportedTotal(i) = ReportedTotal(1)) =>
              Len(wire) = RequestsForSteadyTotal(FirstPageTotal)

C14_Witness ==
    /\ CatalogCall /\ pc = "returned" /\ AllPagesOk
    /\ Len(bodies) = 2
    /\ ReportedTotal(1) = 250
    /\ ReportedTotal(2) = 0

RECURSIVE ConcatData(_)
\* the records of the first n answered pages, in page order
ConcatData(n) == IF n = 0 THEN <<>> ELSE ConcatData(n - 1) \o bodies[n].json.result.data

\* the pages whose records went into the aggregate: the leading 200 answers
AcceptedCount == Cardinality({i \in DOMAIN bodies : Accepted(i)})

\* C15: in get_all's aggregate, at every point and in the value returned, the
\* error list and the status_code list have one entry per page whose records
\* were added; entry i of either is page i's (the page's error list is one
\* entry, not spread out), and result.data is those pages' records
\* concatenated in page order.
C15_OneEntryPerAcceptedPage ==
    CatalogCall =>
        LET n == AcceptedCount
        IN /\ \A i \in 1..n : Accepted(i)
           /\ Len(all_data.error) = n
           /\ Len(all_data.status_code) = n
           /\ \A i \in 1..n :
                 /\ all_data.error[i] = bodies[i].json.error
                 /\ all_data.status_code[i] = bodies[i].status_code
           /\ all_data.result.data = ConcatData(n)
           /\ pc = "returned" => ret = Dict(all_data)

C15_Witness ==
    /\ CatalogCall /\ pc = "returned"
    /\ Len(bodies) = 3 /\ Accepted(1) /\ Accepted(2) /\ ~Accepted(3)
    /\ srv_error = <<"warn1", "warn2">>
    /\ ret.value.error = << <<"warn1", "warn2">>, <<"warn1", "warn2">> >>
    /\ ret.value.status_code = <<200, 200>>
    /\ Len(ret.value.result.data) > PageSize

---------------------------------------------------------------------------
(* Termination of get_all, checked under SpecDriftFair *)

\* the largest total any page reported so far
MaxReported ==
    IF bodies = <<>> THEN 0
    ELSE CHOOSE t \in {ReportedTotal(i) : i \in DOMAIN bodies} :
             \A i \in DOMAIN bodies : ReportedTotal(i) <= t

\* with every page so far answered 200 and no reported total above T, no more
\* than ceil(T / 100) + 1 page requests were sent; an answer with another
\* status is the last one and get_all has returned
C17_RequestBound ==
    CatalogCall =>
        /\ AllAccepted => Len(wire) <= ((MaxReported + PageSize - 1) \div PageSize) + 1
        /\ \A i \in DOMAIN pages :
              pages[i] \in Statuses \ {HTTP_OK} => (i = Len(pages) /\ pc = "returned")

\* in the loop, and only there, a pass of the loop can be taken
C17_LoopStepEnabled == (ENABLED <<LoopStep>>_vars) <=> (pc = "loop")

\* C17: get_all terminates whenever the page getter always returns: the loop
\* is always left; if every page is answered 200 with a reported total of at
\* most T it is left after at most ceil(T / 100) + 1 page requests, and an
\* answer with another status ends it at once.
C17_GetAllTerminates ==
    /\ [](C17_RequestBound)
    /\ [](C17_LoopStepEnabled)
    /\ (pc = "loop") ~> (pc \in {"returned", "raised"})

C17_Witness ==
    /\ CatalogCall /\ pc = "returned" /\ AllAccepted
    /\ srv_changes > 0
    /\ MaxReported = 250
    /\ Len(wire) = 4

\* C16: each get_all call builds a fresh aggregate and a fresh cursor: in a
\* second get_all call on the same client, also one given the first call's
\* params mapping again, the first request carries skip = 0, the aggregate
\* (data, total, error, status_code) holds this call's pages only and is
\* another object than the first call's, and the object the first call
\* returned keeps the value it was returned with.
C16_SecondCallStartsFresh ==
    (held # <<>> /\ call.op = "get_all") =>
        /\ all_data_ref # held[1].ref
        /\ heap[held[1].ref] = held[1].value
        /\ wire # <<>> => SkipOf(wire[1]) = 0
        /\ CatalogCall =>
              LET n == AcceptedCount
              IN /\ pc = "loop" => position = PageSize * Len(bodies)
                 /\ all_data.result.data = ConcatData(n)
                 /\ all_data.result.total = FirstPageTotal
                 /\ all_data.error = [i \in 1..n |-> bodies[i].json.error]
                 /\ all_data.status_code = [i \in 1..n |-> bodies[i].status_code]
                 /\ pc = "returned" => ret = Dict(all_data)

C16_Witness ==
    /\ held # <<>> /\ held[1].returned
    /\ Len(held[1].value.result.data) = MaxRecords
    /\ HasKey(call.kwargs.params, "skip")
    /\ DictGet(call.kwargs.params, "skip") = PyInt(PageSize)
    /\ CatalogCall /\ pc = "returned" /\ AllPagesOk
    /\ Len(wire) = 2
    /\ Len(ret.value.result.data) = MaxRecords

\* the keys get_all and the request path write into params
WrittenKeys == {"skip", "take", "accessToken"}

\* the names of a query string's items
QueryKeys(query) == {query[j][1] : j \in DOMAIN query}

\* C18: all page requests of one get_all call carry the caller's parameters
\* (every key of the caller's params other than skip, take and accessToken)
\* with the caller's values, and differ from one another in skip only; the
\* caller's params mapping gains no key other than skip, take and accessToken,
\* and every other entry of it is, during and after the call, what it was
\* before.
C18_CallerParamsCarriedUnchanged ==
    CatalogCall =>
        LET given == call.kwargs.params
        IN /\ \A i \in DOMAIN wire :
                /\ QueryKeys(wire[i].query) = Keys(given) \cup WrittenKeys
                /\ \A j \in DOMAIN given :
                      given[j][1] \notin WrittenKeys =>
                          QueryGet(wire[i].query, given[j][1]) = Str(given[j][2])
                /\ \A k \in QueryKeys(wire[i].query) \ {"skip"} :
                      QueryGet(wire[i].query, k) = QueryGet(wire[1].query, k)
           /\ kwargs.keys = call.kwargs.keys
           /\ Keys(given) \subseteq Keys(kwargs.params)
           /\ Keys(kwargs.params) \subseteq Keys(given) \cup WrittenKeys
           /\ \A j \in DOMAIN given :
                 given[j][1] \notin WrittenKeys =>
                     DictGet(kwargs.params, given[j][1]) = given[j][2]

C18_Witness ==
    /\ CatalogCall /\ pc = "returned"
    /\ Len(wire) = 3
    /\ HasKey(call.kwargs.params, "filter")
    /\ DictGet(kwargs.params, "skip") = PyInt(2 * PageSize)
    /\ HasKey(kwargs.params, "accessToken")

====
